---- MODULE Spec2Model ----
(***************************************************************************)
(* A model of nucypher/blockchain/eth/signers.py: the Signer contract and  *)
(* its three backends (Web3Signer, LocalSigner, ClefSigner).               *)
(*                                                                         *)
(* One behaviour follows one signer object, whose class is chosen when it  *)
(* is constructed.  Python attribute names keep their mangled owner:       *)
(* `self.__unlocked` written inside class K is the attribute               *)
(* `_K__unlocked`, modelled by the variable K__unlocked.                   *)
(*                                                                         *)
(* Spec takes the calls on the object one after another, each as a whole.  *)
(* SpecConcurrent takes one LocalSigner called by several callers at once, *)
(* statement by statement.                                                 *)
(***************************************************************************)
EXTENDS Naturals, Sequences, FiniteSets, TLC

(***************************************************************************)
(* Bounds of the model.                                                    *)
(***************************************************************************)
NumAccounts == 2      \* account ids 1..NumAccounts
NumCallers == 2       \* concurrent callers of one signer object

(***************************************************************************)
(* Python values.                                                          *)
(***************************************************************************)
PyNone == [t |-> "None"]
PyBool(b) == [t |-> "bool", b |-> b]
PyTrue == PyBool(TRUE)
PyFalse == PyBool(FALSE)

\* An attribute that has not been assigned yet is the empty set, an
\* assigned one the singleton of its value.
Unset == {}
Set(v) == {v}

(***************************************************************************)
(* Addresses: an account id in checksummed or in lowercase (normalized)    *)
(* spelling.                                                               *)
(***************************************************************************)
AccountIds == 1..NumAccounts
\* The zero address has no letters: both spellings are the same string.
Address(i, form) == [t |-> "address", id |-> i, form |-> IF i = 0 THEN "any" ELSE form]
ChecksumAddresses == {Address(i, "checksum") : i \in AccountIds}
LowerAddresses == {Address(i, "lower") : i \in AccountIds}
to_checksum_address(a) == Address(a.id, "checksum")
to_normalized_address(a) == Address(a.id, "lower")

Passwords == {"this-is-not-a-secure-password", "another-password"}
Durations == {PyNone, [t |-> "int", n |-> 60]}
Messages == {[t |-> "bytes", m |-> "hello"]}

(***************************************************************************)
(* Private keys and the encrypted keyfile.  The key of account id i is     *)
(* PrivateKey(i).                                                          *)
(***************************************************************************)
PrivateKey(i) == [t |-> "key", id |-> i]
PrivateKeys == {PrivateKey(i) : i \in AccountIds}
key_address(k) == Address(k.id, "checksum")

\* What the keyfile path holds: nothing, a keystore document encrypting a
\* key under a password, or a document that cannot be decrypted.
NoFile == [t |-> "missing"]
CorruptFile == [t |-> "corrupt"]
Keystore(k, p) == [t |-> "keystore", key |-> k, password |-> p]
KeyfileContents ==
    {NoFile, CorruptFile} \cup {Keystore(k, p) : k \in PrivateKeys, p \in Passwords}

(***************************************************************************)
(* Transactions: mappings of the standard fields.  Numbers are written     *)
(* Int(n); a string is Str of its characters where they are looked at,    *)
(* Text otherwise.                                                         *)
(***************************************************************************)
Int(n) == [t |-> "int", n |-> n]
Text(string) == [t |-> "text", s |-> string]
Str(chars) == [t |-> "str", s |-> chars]
Transaction(nonce, from) ==
    [nonce |-> Int(nonce), gasPrice |-> Int(10), gas |-> Int(21000),
     value |-> Int(0), chainId |-> Int(1), from |-> from,
     to |-> Address(1, "checksum"), data |-> Str(<<>>)]
\* Python's hex(n): "0x" and the digits of n in base 16.
HexDigit(d) ==
    <<"0", "1", "2", "3", "4", "5", "6", "7", "8", "9", "a", "b", "c", "d", "e", "f">>[d + 1]
RECURSIVE hex_digits(_)
hex_digits(n) ==
    IF n < 16 THEN <<HexDigit(n)>> ELSE Append(hex_digits(n \div 16), HexDigit(n % 16))
hex(n) == Str(<<"0", "x">> \o hex_digits(n))
\* The same transaction with its numbers given as hex strings.
Hexed(transaction) ==
    [transaction EXCEPT !.nonce = hex(@.n), !.gasPrice = hex(@.n), !.gas = hex(@.n),
                        !.value = hex(@.n), !.chainId = hex(@.n)]
IntTransactions ==
    {Transaction(5, Address(1, "checksum")), Transaction(6, Address(2, "checksum"))}
Transactions == IntTransactions \cup {Hexed(Transaction(5, Address(1, "checksum")))}

(***************************************************************************)
(* The state: the signer object's attributes, the collaborators it was     *)
(* built with, and a record of the two most recent calls made on it.       *)
(***************************************************************************)
VARIABLES
    cls,                    \* the signer's class
    Signer__unlocked,       \* _Signer__unlocked, read by is_unlocked
    Web3Signer__unlocked,   \* _Web3Signer__unlocked
    Web3Signer__client,     \* _Web3Signer__client
    LocalSigner__unlocked,  \* _LocalSigner__unlocked
    LocalSigner__key,       \* _LocalSigner__key
    keyfile,                \* what the path _LocalSigner__keyfile holds
    toHex_str,              \* what the installed Web3.toHex does with a str
    callers,                \* concurrent callers: where each is inside its call
    last,                   \* the most recent call and its outcome
    prev,                   \* the call before it
    lastLockOp,             \* outcome of the most recent unlock_account/lock_account
    unlockedSinceLock       \* an unlock_account has succeeded and no lock_account followed

vars == <<cls, Signer__unlocked, Web3Signer__unlocked, Web3Signer__client,
          LocalSigner__unlocked, LocalSigner__key, keyfile, toHex_str, callers, last,
          prev, lastLockOp, unlockedSinceLock>>

attrs == <<Signer__unlocked, Web3Signer__unlocked, Web3Signer__client,
           LocalSigner__unlocked, LocalSigner__key>>

Classes == {"Web3Signer", "LocalSigner", "ClefSigner"}

\* A caller that is not inside a call, and one whose call has ended:
\* `signed` tells whether the call reached its signing step and with what
\* key, `revoking` whether another caller was between the two statements of
\* lock_account, a key just discarded, when the call ended.
Callers == 1..NumCallers
NotCalling ==
    [pc |-> "idle", op |-> "none", outcome |-> "none", signed |-> "no", revoking |-> FALSE]
Ended(op, outcome, signed, revoking) ==
    [pc |-> "idle", op |-> op, outcome |-> outcome, signed |-> signed,
     revoking |-> revoking]

\* is_unlocked reading the flag that LocalSigner's own methods write.
is_unlocked_written_flag == LocalSigner__unlocked = Set(PyTrue)
\* Signer.is_unlocked: the property returns self.__unlocked of class Signer.
is_unlocked == Signer__unlocked

NoCall == [op |-> "none"]
NoArgs == [t |-> "none"]

\* The signer's attributes, by name.
Snapshot ==
    [Signer__unlocked |-> Signer__unlocked, Web3Signer__unlocked |-> Web3Signer__unlocked,
     LocalSigner__unlocked |-> LocalSigner__unlocked, LocalSigner__key |-> LocalSigner__key]

\* The record of one call: what was asked, the lock state and attributes it
\* found, how it ended ("return" or the exception raised), the value it
\* returned and the requests it sent to its delegate.
Call(op, args, outcome, value, requests) ==
    [op |-> op, args |-> args, was_unlocked |-> is_unlocked, pre |-> Snapshot,
     outcome |-> outcome, value |-> value, requests |-> requests]

Returned(op, args, value, requests) == Call(op, args, "return", value, requests)
Raised(op, args, exc, requests) == Call(op, args, exc, PyNone, requests)

LockOpOf(c) ==
    CASE c.op = "lock_account" -> "lock"
      [] c.op = "unlock_account" /\ c.outcome = "return" /\ c.value = PyTrue -> "unlock_ok"
      [] c.op = "unlock_account" -> "unlock_failed"
      [] OTHER -> lastLockOp

\* The calls whose record is kept when another call follows; of the others
\* only the name is kept.
KeptOps == {"unlock_account", "lock_account", "sign_transaction"}
Kept(c) == IF c.op \in KeptOps THEN c ELSE [op |-> c.op]

\* Every call ends by handing its outcome to the caller.
Finish(c) ==
    /\ prev' = Kept(last)
    /\ last' = c
    /\ lastLockOp' = LockOpOf(c)
    /\ unlockedSinceLock' = CASE LockOpOf(c) = "unlock_ok" /\ c.op = "unlock_account" -> TRUE
                               [] c.op = "lock_account" -> FALSE
                               [] OTHER -> unlockedSinceLock
    /\ UNCHANGED <<cls, keyfile, toHex_str, callers>>

\* sign_transaction ends: besides the outcome, the caller is left with the
\* mapping it passed in, as the call left it.
FinishSignTransaction(transaction_after, c) ==
    Finish(c @@ [transaction_after |-> transaction_after])

\* A value in a condition (`if v:`, `if not v:`).
Truthy(v) ==
    CASE v.t = "None" -> FALSE
      [] v.t = "bool" -> v.b
      [] v.t = "str" -> v.s # <<>>
      [] v.t = "text" -> v.s # ""
      [] OTHER -> TRUE

(***************************************************************************)
(* LocalSigner                                                             *)
(***************************************************************************)
\* w3.eth.account.decrypt(encrypted_key, password): the key of a keystore
\* document under its password, an error otherwise.
account_decrypt(encrypted_key, password) ==
    IF encrypted_key.t = "keystore" /\ encrypted_key.password = password
    THEN [outcome |-> "return", value |-> encrypted_key.key]
    ELSE [outcome |-> "ValueError", value |-> PyNone]

\* LocalSigner.__import_keyfile with the decryption error swallowed: the
\* import reports success although no key was obtained.
LocalSigner__import_keyfile_swallowing(password) ==
    IF keyfile = NoFile
    THEN [outcome |-> "FileNotFoundError", value |-> PyNone]
    ELSE [outcome |-> "return",
          value |-> IF account_decrypt(keyfile, password).outcome = "return"
                    THEN account_decrypt(keyfile, password).value
                    ELSE PyNone]

\* LocalSigner.__import_keyfile: what it returns or raises; on success the
\* caller below stores `value` in self.__key.
\* LocalSigner.__import_keyfile reporting a missing keyfile as it reports a
\* failed decryption.
LocalSigner__import_keyfile_conflating(password) ==
    IF keyfile = NoFile
    THEN [outcome |-> "ValueError", value |-> PyNone]
    ELSE account_decrypt(keyfile, password)

LocalSigner__import_keyfile(password) ==
    IF keyfile = NoFile
    THEN [outcome |-> "FileNotFoundError", value |-> PyNone]
    ELSE account_decrypt(keyfile, password)

\* w3.eth.account.sign_transaction(transaction_dict, private_key)['rawTransaction']:
\* the raw transaction signed by the key; recovering its sender gives the
\* key's address.  No key, or a `from` that is not the key's address, is an
\* error.
account_sign_transaction(transaction_dict, private_key) ==
    IF private_key.t # "key" \/ transaction_dict.from # key_address(private_key)
    THEN [outcome |-> "TypeError", value |-> PyNone]
    ELSE [outcome |-> "return",
          value |-> [t |-> "HexBytes", transaction |-> transaction_dict,
                     sender |-> key_address(private_key)]]

recover_transaction(raw) == raw.sender

LocalSigner_accounts ==
    /\ cls = "LocalSigner"
    /\ Finish(Returned("accounts", NoArgs, PyNone, <<>>))
    /\ UNCHANGED attrs

\* LocalSigner.unlock_account handing the decrypted key back to the caller.
LocalSigner_unlock_account_returning_key(account, password, duration) ==
    LET args == [account |-> account, password |-> password, duration |-> duration]
        imported == LocalSigner__import_keyfile(password)
    IN  /\ cls = "LocalSigner"
        /\ IF imported.outcome = "return"
           THEN /\ LocalSigner__key' = Set(imported.value)
                /\ LocalSigner__unlocked' = Set(PyTrue)
                /\ Finish(Returned("unlock_account", args, imported.value, <<>>))
           ELSE /\ UNCHANGED <<LocalSigner__key, LocalSigner__unlocked>>
                /\ Finish(Raised("unlock_account", args, imported.outcome, <<>>))
        /\ UNCHANGED <<Signer__unlocked, Web3Signer__unlocked, Web3Signer__client>>

\* LocalSigner.unlock_account dropping the key it holds when the import
\* fails.
LocalSigner_unlock_account_clearing(account, password, duration) ==
    LET args == [account |-> account, password |-> password, duration |-> duration]
        imported == LocalSigner__import_keyfile(password)
    IN  /\ cls = "LocalSigner"
        /\ IF imported.outcome = "return"
           THEN /\ LocalSigner__key' = Set(imported.value)
                /\ LocalSigner__unlocked' = Set(PyTrue)
                /\ Finish(Returned("unlock_account", args, PyTrue, <<>>))
           ELSE /\ LocalSigner__key' = Set(PyNone)
                /\ LocalSigner__unlocked' = Set(PyFalse)
                /\ Finish(Raised("unlock_account", args, imported.outcome, <<>>))
        /\ UNCHANGED <<Signer__unlocked, Web3Signer__unlocked, Web3Signer__client>>

LocalSigner_unlock_account(account, password, duration) ==
    LET args == [account |-> account, password |-> password, duration |-> duration]
        imported == LocalSigner__import_keyfile(password)
    IN  /\ cls = "LocalSigner"
        /\ IF imported.outcome = "return"
           THEN /\ LocalSigner__key' = Set(imported.value)
                /\ LocalSigner__unlocked' = Set(PyTrue)
                /\ Finish(Returned("unlock_account", args, PyTrue, <<>>))
           ELSE /\ UNCHANGED <<LocalSigner__key, LocalSigner__unlocked>>
                /\ Finish(Raised("unlock_account", args, imported.outcome, <<>>))
        /\ UNCHANGED <<Signer__unlocked, Web3Signer__unlocked, Web3Signer__client>>

\* LocalSigner.lock_account refusing when no key is held: it raises instead
\* of returning, and changes nothing.
LocalSigner_lock_account_refusing(account) ==
    /\ cls = "LocalSigner"
    /\ IF LocalSigner__key = Set(PyNone)
       THEN /\ Finish(Raised("lock_account", [account |-> account], "AccountLocked", <<>>))
            /\ UNCHANGED <<LocalSigner__key, LocalSigner__unlocked>>
       ELSE /\ LocalSigner__key' = Set(PyNone)
            /\ LocalSigner__unlocked' = Set(PyFalse)
            /\ Finish(Returned("lock_account", [account |-> account], PyFalse, <<>>))
    /\ UNCHANGED <<Signer__unlocked, Web3Signer__unlocked, Web3Signer__client>>

LocalSigner_lock_account(account) ==
    /\ cls = "LocalSigner"
    /\ LocalSigner__key' = Set(PyNone)
    /\ LocalSigner__unlocked' = Set(PyFalse)
    /\ Finish(Returned("lock_account", [account |-> account], PyFalse, <<>>))
    /\ UNCHANGED <<Signer__unlocked, Web3Signer__unlocked, Web3Signer__client>>

\* LocalSigner.sign_transaction without its is_unlocked check.
LocalSigner_sign_transaction_unguarded(account, unsigned_transaction) ==
    LET args == [account |-> account, transaction |-> unsigned_transaction]
        signed == account_sign_transaction(unsigned_transaction,
                                           CHOOSE k \in LocalSigner__key : TRUE)
    IN  /\ cls = "LocalSigner"
        /\ FinishSignTransaction(unsigned_transaction,
                    Call("sign_transaction", args, signed.outcome, signed.value, <<>>))
        /\ UNCHANGED attrs

LocalSigner_sign_transaction(account, unsigned_transaction) ==
    LET args == [account |-> account, transaction |-> unsigned_transaction]
        signed == account_sign_transaction(unsigned_transaction,
                                           CHOOSE k \in LocalSigner__key : TRUE)
    IN  /\ cls = "LocalSigner"
        /\ IF ~is_unlocked
           THEN FinishSignTransaction(unsigned_transaction,
                    Raised("sign_transaction", args, "AccountLocked", <<>>))
           ELSE FinishSignTransaction(unsigned_transaction,
                    Call("sign_transaction", args, signed.outcome, signed.value, <<>>))
        /\ UNCHANGED attrs

LocalSigner_sign_message(account, message) ==
    /\ cls = "LocalSigner"
    /\ Finish(Returned("sign_message", [account |-> account, message |-> message],
                       PyNone, <<>>))
    /\ UNCHANGED attrs

(***************************************************************************)
(* Web3Signer                                                              *)
(***************************************************************************)
\* Wallet URLs, as sequences of characters.
TrezorUrl == <<"t", "r", "e", "z", "o", "r", ":", "/", "/">>
LedgerUrl == <<"l", "e", "d", "g", "e", "r", ":", "/", "/">>
KeystoreUrl == <<"k", "e", "y", "s", "t", "o", "r", "e", ":", "/", "/">>
WalletUrls == {TrezorUrl, LedgerUrl, KeystoreUrl}

\* The connected client: whether it has a `wallets` attribute, and the list
\* of {url, accounts} it holds.
Client(has_wallets, wallets) ==
    [t |-> "client", has_wallets |-> has_wallets, wallets |-> wallets]
Wallet(url, addresses) ==
    [url |-> url, accounts |-> [i \in 1..Len(addresses) |-> [address |-> addresses[i]]]]
SeqsUpTo(S, n) == UNION {[1..k -> S] : k \in 0..n}
\* The clients a signer is built with: one without wallets, one with an empty
\* list, one wallet of each kind holding one account in either spelling, and
\* a software wallet followed by a hardware wallet holding two accounts.
Clients ==
    {Client(FALSE, <<>>), Client(TRUE, <<>>)}
    \cup {Client(TRUE, <<Wallet(u, <<a>>)>>) :
              u \in WalletUrls, a \in ChecksumAddresses \cup LowerAddresses}
    \cup {Client(TRUE, <<Wallet(KeystoreUrl, <<Address(1, "checksum")>>),
                         Wallet(u, <<Address(1, "lower"), Address(2, "lower")>>)>>) :
              u \in {TrezorUrl, LedgerUrl}}

HW_WALLET_URL_PREFIXES ==
    {<<"t", "r", "e", "z", "o", "r">>, <<"l", "e", "d", "g", "e", "r">>}

\* str.startswith with a tuple of prefixes.
startswith(s, prefixes) ==
    \E p \in prefixes : Len(p) <= Len(s) /\ SubSeq(s, 1, Len(p)) = p

\* Web3Signer.is_device(self, account), were it called: False when the
\* client has no wallets, else whether account is among the checksummed
\* addresses of the wallets with a hardware URL.
is_device(client, account) ==
    IF ~client.has_wallets
    THEN PyFalse
    ELSE LET wallets == client.wallets
             hw == {i \in 1..Len(wallets) : startswith(wallets[i].url, HW_WALLET_URL_PREFIXES)}
             hw_accounts == {wallets[i].accounts : i \in hw}
             hw_addresses ==
                 UNION {{to_checksum_address(sublist[j].address) : j \in 1..Len(sublist)} :
                            sublist \in hw_accounts}
         IN  PyBool(account \in hw_addresses)

\* `self.is_device` as unlock_account and lock_account read it: the
\* attribute, not a call.  is_device is a staticmethod, so the attribute is
\* the plain function object.
self_is_device == [t |-> "function", name |-> "is_device"]

\* What a request to the client or to the signing daemon comes back with: a
\* result, or a failure of the transport.
\* A request together with what came back for it.
Exchange(request, reply) ==
    [method |-> request.method, params |-> request.params, reply |-> reply]
Sent(request, reply) == <<Exchange(request, reply)>>
Replied(v) == [outcome |-> "return", value |-> v]
TransportFailure == [outcome |-> "ConnectionError", value |-> PyNone]

\* Replies of the delegates.
UnlockReplies == {Replied(PyTrue), Replied(PyFalse), TransportFailure}
LockReplies == {Replied(PyTrue), TransportFailure}
SignatureReplies == {Replied([t |-> "bytes", m |-> "signature"]), TransportFailure}
ClefSignedReplies ==
    {Replied([t |-> "response", has_raw |-> TRUE, raw |-> "raw"]),
     Replied([t |-> "response", has_raw |-> FALSE, raw |-> "none"]),
     TransportFailure}
ClefDataReplies == {Replied(Text("0xsignature")), TransportFailure}
ClefAccountReplies ==
    {Replied([t |-> "list", items |-> as]) : as \in SeqsUpTo(LowerAddresses, 2)}
    \cup {TransportFailure}

Web3Signer_accounts ==
    /\ cls = "Web3Signer"
    /\ Finish(Returned("accounts", NoArgs, PyNone, <<>>))
    /\ UNCHANGED attrs

\* Web3Signer.unlock_account with the hardware branch never taken: every
\* account is unlocked through the client.
Web3Signer_unlock_account_delegating(account, password, duration) ==
    LET args == [account |-> account, password |-> password, duration |-> duration]
        request == [method |-> "unlock_account",
                    params |-> [address |-> account, password |-> password,
                                duration |-> duration]]
    IN  /\ cls = "Web3Signer"
        /\ \E reply \in UnlockReplies :
               IF reply.outcome = "return"
               THEN /\ Web3Signer__unlocked' = Set(reply.value)
                    /\ Finish(Returned("unlock_account", args, reply.value,
                                       Sent(request, reply)))
               ELSE /\ UNCHANGED Web3Signer__unlocked
                    /\ Finish(Raised("unlock_account", args, reply.outcome,
                                     Sent(request, reply)))
        /\ UNCHANGED <<Signer__unlocked, Web3Signer__client, LocalSigner__unlocked,
                       LocalSigner__key>>

Web3Signer_unlock_account(account, password, duration) ==
    LET args == [account |-> account, password |-> password, duration |-> duration]
        request == [method |-> "unlock_account",
                    params |-> [address |-> account, password |-> password,
                                duration |-> duration]]
    IN  /\ cls = "Web3Signer"
        /\ IF Truthy(self_is_device)
           THEN /\ Web3Signer__unlocked' = Set(PyTrue)
                /\ Finish(Returned("unlock_account", args, PyTrue, <<>>))
           ELSE \E reply \in UnlockReplies :
                    IF reply.outcome = "return"
                    THEN /\ Web3Signer__unlocked' = Set(reply.value)
                         /\ Finish(Returned("unlock_account", args, reply.value,
                                            Sent(request, reply)))
                    ELSE /\ UNCHANGED Web3Signer__unlocked
                         /\ Finish(Raised("unlock_account", args, reply.outcome,
                                          Sent(request, reply)))
        /\ UNCHANGED <<Signer__unlocked, Web3Signer__client, LocalSigner__unlocked,
                       LocalSigner__key>>

Web3Signer_lock_account(account) ==
    LET args == [account |-> account]
        request == [method |-> "lock_account", params |-> [address |-> account]]
    IN  /\ cls = "Web3Signer"
        /\ IF Truthy(self_is_device)
           THEN /\ Web3Signer__unlocked' = Set(PyFalse)
                /\ Finish(Returned("lock_account", args, PyFalse, <<>>))
           ELSE \E reply \in LockReplies :
                    IF reply.outcome = "return"
                    THEN /\ Web3Signer__unlocked' = Set(PyFalse)
                         /\ Finish(Returned("lock_account", args, PyFalse, Sent(request, reply)))
                    ELSE /\ UNCHANGED Web3Signer__unlocked
                         /\ Finish(Raised("lock_account", args, reply.outcome,
                                          Sent(request, reply)))
        /\ UNCHANGED <<Signer__unlocked, Web3Signer__client, LocalSigner__unlocked,
                       LocalSigner__key>>

\* Web3Signer.sign_message without its is_unlocked check.
Web3Signer_sign_message_unguarded(account, message) ==
    LET args == [account |-> account, message |-> message]
        request == [method |-> "sign_message",
                    params |-> [account |-> account, message |-> message]]
    IN  /\ cls = "Web3Signer"
        /\ \E reply \in SignatureReplies :
               Finish(Call("sign_message", args, reply.outcome, reply.value,
                           Sent(request, reply)))
        /\ UNCHANGED attrs

Web3Signer_sign_message(account, message) ==
    LET args == [account |-> account, message |-> message]
        request == [method |-> "sign_message",
                    params |-> [account |-> account, message |-> message]]
    IN  /\ cls = "Web3Signer"
        /\ IF ~is_unlocked
           THEN Finish(Raised("sign_message", args, "AccountLocked", <<>>))
           ELSE \E reply \in SignatureReplies :
                    IF reply.outcome = "return"
                    THEN Finish(Returned("sign_message", args,
                                         [t |-> "HexBytes", of |-> reply.value],
                                         Sent(request, reply)))
                    ELSE Finish(Raised("sign_message", args, reply.outcome, Sent(request, reply)))
        /\ UNCHANGED attrs

Web3Signer_sign_transaction(account, unsigned_transaction) ==
    LET args == [account |-> account, transaction |-> unsigned_transaction]
        request == [method |-> "sign_transaction",
                    params |-> [transaction |-> unsigned_transaction]]
    IN  /\ cls = "Web3Signer"
        /\ IF ~is_unlocked
           THEN FinishSignTransaction(unsigned_transaction,
                    Raised("sign_transaction", args, "AccountLocked", <<>>))
           ELSE \E reply \in SignatureReplies :
                    FinishSignTransaction(unsigned_transaction,
                    Call("sign_transaction", args, reply.outcome, reply.value,
                                Sent(request, reply)))
        /\ UNCHANGED attrs

(***************************************************************************)
(* ClefSigner                                                              *)
(***************************************************************************)
SIGN_DATA_FOR_VALIDATOR == Text("data/validator")
SIGN_DATA_FOR_CLIQUE == Text("application/clique")
SIGN_DATA_FOR_ECRECOVER == Text("text/plain")
\* The default content type being the clique type.
DEFAULT_CONTENT_TYPE_clique == SIGN_DATA_FOR_CLIQUE
DEFAULT_CONTENT_TYPE == SIGN_DATA_FOR_ECRECOVER
\* The recognized content types without the clique type.
SIGN_DATA_CONTENT_TYPES_without_clique ==
    {SIGN_DATA_FOR_VALIDATOR, SIGN_DATA_FOR_ECRECOVER}
SIGN_DATA_CONTENT_TYPES ==
    {SIGN_DATA_FOR_VALIDATOR, SIGN_DATA_FOR_CLIQUE, SIGN_DATA_FOR_ECRECOVER}

\* BlockchainInterface.NULL_ADDRESS, the zero address.
NULL_ADDRESS == Address(0, "lower")

\* The hex encoding of a str taken as text: two digits for the code of each
\* character ('0'..'9' are 0x30..0x39, 'a'..'f' are 0x61..0x66, 'x' is 0x78).
char_hex(c) ==
    CASE c = "x" -> <<"7", "8">>
      [] c \in {"a", "b", "c", "d", "e", "f"} ->
             <<"6", HexDigit((CHOOSE d \in 10..15 : HexDigit(d) = c) - 9)>>
      [] OTHER -> <<"3", c>>
RECURSIVE text_hex(_)
text_hex(chars) ==
    IF chars = <<>> THEN <<>> ELSE char_hex(Head(chars)) \o text_hex(Tail(chars))

\* Web3.toHex(primitive).  An integer gives hex(n).  A str passed as the
\* primitive is not read as a number by either implementation web3 has had:
\* eth_utils.to_hex raises TypeError, web3's own encoder takes it as text.
toHex(primitive) ==
    CASE primitive.t = "int" -> [outcome |-> "return", value |-> hex(primitive.n)]
      [] primitive.t = "str" /\ toHex_str = "raises" ->
             [outcome |-> "TypeError", value |-> Str(<<>>)]
      [] primitive.t = "str" /\ toHex_str = "encodes" ->
             [outcome |-> "return", value |-> Str(<<"0", "x">> \o text_hex(primitive.s))]

\* The fields ClefSigner.sign_transaction formats with Web3.toHex.
NumericFields == {"nonce", "gasPrice", "gas", "value", "chainId"}

\* apply_formatters_to_dict(formatters, transaction) with the formatters of
\* ClefSigner.sign_transaction: a new mapping, the caller's is left alone.
\* A formatter that raises ends the call.
format_transaction(transaction) ==
    IF \E f \in NumericFields : toHex(transaction[f]).outcome # "return"
    THEN [outcome |-> "TypeError", value |-> transaction]
    ELSE [outcome |-> "return",
          value |-> [transaction EXCEPT !.nonce = toHex(@).value,
                                        !.gasPrice = toHex(@).value,
                                        !.gas = toHex(@).value,
                                        !.value = toHex(@).value,
                                        !.chainId = toHex(@).value,
                                        !.from = to_normalized_address(@)]]

\* The formatting written into the mapping that was passed in.
transaction_formatted_in_place(transaction) == format_transaction(transaction).value
\* The mapping the caller passed to ClefSigner.sign_transaction, after
\* `transaction = apply_formatters_to_dict(formatters, transaction)`: the
\* formatted mapping is a new object bound to the local name.
transaction_after_formatting(transaction) == transaction

\* ClefSigner.accounts answering a failed request with an empty list.
ClefSigner_accounts_swallowing ==
    LET request == [method |-> "account_list", params |-> <<>>]
    IN  /\ cls = "ClefSigner"
        /\ \E reply \in ClefAccountReplies :
               LET normalized_addresses ==
                       IF reply.outcome = "return" THEN reply.value.items ELSE <<>>
                   checksum_addresses ==
                       [i \in 1..Len(normalized_addresses) |->
                            to_checksum_address(normalized_addresses[i])]
               IN  Finish(Returned("accounts", NoArgs,
                                   [t |-> "list", items |-> checksum_addresses],
                                   Sent(request, reply)))
        /\ UNCHANGED attrs

ClefSigner_accounts ==
    LET request == [method |-> "account_list", params |-> <<>>]
    IN  /\ cls = "ClefSigner"
        /\ \E reply \in ClefAccountReplies :
               IF reply.outcome = "return"
               THEN LET normalized_addresses == reply.value.items
                        checksum_addresses ==
                            [i \in 1..Len(normalized_addresses) |->
                                 to_checksum_address(normalized_addresses[i])]
                    IN  Finish(Returned("accounts", NoArgs,
                                        [t |-> "list", items |-> checksum_addresses],
                                        Sent(request, reply)))
               ELSE Finish(Raised("accounts", NoArgs, reply.outcome, Sent(request, reply)))
        /\ UNCHANGED attrs

ClefSigner_sign_transaction(account, transaction) ==
    LET args == [account |-> account, transaction |-> transaction]
        formatted == format_transaction(transaction)
        request == [method |-> "account_signTransaction", params |-> <<formatted.value>>]
        after == transaction_after_formatting(transaction)
    IN  /\ cls = "ClefSigner"
        /\ IF formatted.outcome # "return"
           THEN FinishSignTransaction(after, Raised("sign_transaction", args,
                                                    formatted.outcome, <<>>))
           ELSE \E reply \in ClefSignedReplies :
                    IF reply.outcome # "return"
                    THEN FinishSignTransaction(after, Raised("sign_transaction", args,
                                                             reply.outcome,
                                                             Sent(request, reply)))
                    ELSE IF ~reply.value.has_raw
                    THEN FinishSignTransaction(after, Raised("sign_transaction", args,
                                                             "AttributeError",
                                                             Sent(request, reply)))
                    ELSE FinishSignTransaction(after,
                             Returned("sign_transaction", args,
                                      [t |-> "HexBytes", of |-> reply.value.raw],
                                      Sent(request, reply)))
        /\ UNCHANGED attrs

\* ClefSigner.sign_message sending its request before it validates the
\* content type and the validator address.
ClefSigner_sign_message_sending_first(account, message, content_type_arg, validator_address) ==
    LET args == [account |-> account, message |-> message,
                 content_type |-> content_type_arg, validator_address |-> validator_address]
        content_type == IF ~Truthy(content_type_arg) THEN DEFAULT_CONTENT_TYPE
                        ELSE content_type_arg
        data == IF content_type = SIGN_DATA_FOR_VALIDATOR
                THEN [t |-> "list", items |-> <<validator_address, message>>]
                ELSE message
        request == [method |-> "account_signData",
                    params |-> <<content_type, account, data>>]
    IN  /\ cls = "ClefSigner"
        /\ \E reply \in ClefDataReplies :
               IF Truthy(content_type_arg) /\ content_type_arg \notin SIGN_DATA_CONTENT_TYPES
               THEN Finish(Raised("sign_message", args,
                                  "ValueError: not a valid content type",
                                  Sent(request, reply)))
               ELSE IF content_type = SIGN_DATA_FOR_VALIDATOR
                       /\ (~Truthy(validator_address) \/ validator_address = NULL_ADDRESS)
               THEN Finish(Raised("sign_message", args,
                                  "ValueError: a validator address is required",
                                  Sent(request, reply)))
               ELSE IF content_type # SIGN_DATA_FOR_VALIDATOR
                       /\ content_type # SIGN_DATA_FOR_ECRECOVER
               THEN Finish(Raised("sign_message", args, "NotImplementedError", <<>>))
               ELSE Finish(Call("sign_message", args, reply.outcome, reply.value,
                                Sent(request, reply)))
        /\ UNCHANGED attrs

\* ClefSigner.sign_message taking the zero address for a validator address:
\* only an absent address is refused.
ClefSigner_sign_message_zero_validator(account, message, content_type_arg, validator_address) ==
    LET args == [account |-> account, message |-> message,
                 content_type |-> content_type_arg, validator_address |-> validator_address]
        content_type == IF ~Truthy(content_type_arg) THEN DEFAULT_CONTENT_TYPE
                        ELSE content_type_arg
        data == IF content_type = SIGN_DATA_FOR_VALIDATOR
                THEN [t |-> "list", items |-> <<validator_address, message>>]
                ELSE message
        request == [method |-> "account_signData",
                    params |-> <<content_type, account, data>>]
    IN  /\ cls = "ClefSigner"
        /\ IF Truthy(content_type_arg) /\ content_type_arg \notin SIGN_DATA_CONTENT_TYPES
           THEN Finish(Raised("sign_message", args, "ValueError: not a valid content type",
                              <<>>))
           ELSE IF content_type = SIGN_DATA_FOR_VALIDATOR /\ ~Truthy(validator_address)
           THEN Finish(Raised("sign_message", args,
                              "ValueError: a validator address is required", <<>>))
           ELSE IF content_type # SIGN_DATA_FOR_VALIDATOR
                   /\ content_type # SIGN_DATA_FOR_ECRECOVER
           THEN Finish(Raised("sign_message", args, "NotImplementedError", <<>>))
           ELSE \E reply \in ClefDataReplies :
                    Finish(Call("sign_message", args, reply.outcome, reply.value,
                                Sent(request, reply)))
        /\ UNCHANGED attrs

ClefSigner_sign_message(account, message, content_type_arg, validator_address) ==
    LET args == [account |-> account, message |-> message,
                 content_type |-> content_type_arg, validator_address |-> validator_address]
        content_type == IF ~Truthy(content_type_arg) THEN DEFAULT_CONTENT_TYPE
                        ELSE content_type_arg
        data == IF content_type = SIGN_DATA_FOR_VALIDATOR
                THEN [t |-> "list", items |-> <<validator_address, message>>]
                ELSE message
        request == [method |-> "account_signData",
                    params |-> <<content_type, account, data>>]
    IN  /\ cls = "ClefSigner"
        /\ IF Truthy(content_type_arg) /\ content_type_arg \notin SIGN_DATA_CONTENT_TYPES
           THEN Finish(Raised("sign_message", args, "ValueError: not a valid content type",
                              <<>>))
           ELSE IF content_type = SIGN_DATA_FOR_VALIDATOR
                   /\ (~Truthy(validator_address) \/ validator_address = NULL_ADDRESS)
           THEN Finish(Raised("sign_message", args,
                              "ValueError: a validator address is required", <<>>))
           ELSE IF content_type # SIGN_DATA_FOR_VALIDATOR
                   /\ content_type # SIGN_DATA_FOR_ECRECOVER
           THEN Finish(Raised("sign_message", args, "NotImplementedError", <<>>))
           ELSE \E reply \in ClefDataReplies :
                    Finish(Call("sign_message", args, reply.outcome, reply.value,
                                Sent(request, reply)))
        /\ UNCHANGED attrs

\* ClefSigner.unlock_account asking the daemon: one request, and the reply
\* is what the caller gets.
ClefSigner_unlock_account_delegating(address, password, duration) ==
    LET args == [account |-> address, password |-> password, duration |-> duration]
        request == [method |-> "account_unlock", params |-> <<address>>]
    IN  /\ cls = "ClefSigner"
        /\ \E reply \in UnlockReplies :
               Finish(Call("unlock_account", args, reply.outcome, reply.value,
                           Sent(request, reply)))
        /\ UNCHANGED attrs

ClefSigner_unlock_account(address, password, duration) ==
    /\ cls = "ClefSigner"
    /\ Finish(Returned("unlock_account",
                       [account |-> address, password |-> password, duration |-> duration],
                       PyTrue, <<>>))
    /\ UNCHANGED attrs

ClefSigner_lock_account(address) ==
    /\ cls = "ClefSigner"
    /\ Finish(Returned("lock_account", [account |-> address], PyTrue, <<>>))
    /\ UNCHANGED attrs

(***************************************************************************)
(* Construction, and the calls a caller can make.                          *)
(***************************************************************************)
\* Signer.__init__ with the flag starting out true.
Signer_init_unlocked ==
    /\ Signer__unlocked = TRUE
    /\ callers = [t \in Callers |-> NotCalling]
    /\ last = NoCall
    /\ prev = NoCall
    /\ lastLockOp = "none"
    /\ unlockedSinceLock = FALSE

\* Signer.__init__ sets _Signer__unlocked; each subclass's __init__ adds its
\* own attributes.  _Web3Signer__unlocked and _LocalSigner__unlocked do not
\* exist until unlock_account or lock_account assigns them.
Signer_init ==
    /\ Signer__unlocked = FALSE
    /\ callers = [t \in Callers |-> NotCalling]
    /\ last = NoCall
    /\ prev = NoCall
    /\ lastLockOp = "none"
    /\ unlockedSinceLock = FALSE

ToHexOfStr == {"raises", "encodes"}

Web3Signer_init ==
    /\ cls = "Web3Signer"
    /\ Signer_init
    /\ toHex_str = "raises"
    /\ Web3Signer__client \in {Set(c) : c \in Clients}
    /\ Web3Signer__unlocked = Unset
    /\ LocalSigner__unlocked = Unset
    /\ LocalSigner__key = Unset
    /\ keyfile = NoFile

LocalSigner_init ==
    /\ cls = "LocalSigner"
    /\ Signer_init
    /\ toHex_str = "raises"
    /\ LocalSigner__key = Set(PyNone)
    /\ keyfile \in KeyfileContents
    /\ LocalSigner__unlocked = Unset
    /\ Web3Signer__client = Unset
    /\ Web3Signer__unlocked = Unset

ClefSigner_init ==
    /\ cls = "ClefSigner"
    /\ Signer_init
    /\ toHex_str \in ToHexOfStr
    /\ Web3Signer__client = Unset
    /\ Web3Signer__unlocked = Unset
    /\ LocalSigner__unlocked = Unset
    /\ LocalSigner__key = Unset
    /\ keyfile = NoFile

Init == Web3Signer_init \/ LocalSigner_init \/ ClefSigner_init

ContentTypeArgs ==
    {PyNone, Text(""), SIGN_DATA_FOR_VALIDATOR, SIGN_DATA_FOR_CLIQUE, SIGN_DATA_FOR_ECRECOVER,
     Text("application/json")}
ValidatorAddressArgs == {PyNone, NULL_ADDRESS, Address(1, "checksum")}

Next ==
    \/ Web3Signer_accounts
    \/ \E a \in ChecksumAddresses, p \in Passwords, d \in Durations :
           Web3Signer_unlock_account(a, p, d)
    \/ \E a \in ChecksumAddresses : Web3Signer_lock_account(a)
    \/ \E a \in ChecksumAddresses, m \in Messages : Web3Signer_sign_message(a, m)
    \/ \E a \in ChecksumAddresses, tx \in Transactions : Web3Signer_sign_transaction(a, tx)
    \/ LocalSigner_accounts
    \/ \E a \in ChecksumAddresses, p \in Passwords, d \in Durations :
           LocalSigner_unlock_account(a, p, d)
    \/ \E a \in ChecksumAddresses : LocalSigner_lock_account(a)
    \/ \E a \in ChecksumAddresses, tx \in Transactions : LocalSigner_sign_transaction(a, tx)
    \/ \E a \in ChecksumAddresses, m \in Messages : LocalSigner_sign_message(a, m)
    \/ ClefSigner_accounts
    \/ \E a \in ChecksumAddresses, tx \in Transactions : ClefSigner_sign_transaction(a, tx)
    \/ \E a \in ChecksumAddresses, m \in Messages, ct \in ContentTypeArgs,
          va \in ValidatorAddressArgs :
           ClefSigner_sign_message(a, m, ct, va)
    \/ \E a \in ChecksumAddresses, p \in Passwords, d \in Durations :
           ClefSigner_unlock_account(a, p, d)
    \/ \E a \in ChecksumAddresses : ClefSigner_lock_account(a)

Spec == Init /\ [][Next]_vars

(***************************************************************************)
(* One LocalSigner used by several callers at once.  Nothing in the class  *)
(* excludes one call from another, so each statement that reads or writes  *)
(* an attribute is a step of its own, and steps of different callers       *)
(* interleave freely.                                                      *)
(***************************************************************************)
\* Another caller is between `self.__key = None` and `self.__unlocked =
\* False` of lock_account, and the key it discarded was a decrypted key.
Revoking(t) ==
    \E u \in Callers \ {t} :
        callers[u].pc = "lock_flag" /\ callers[u].discarded \notin {Unset, Set(PyNone)}

sequential == <<last, prev, lastLockOp, unlockedSinceLock>>

\* LocalSigner.unlock_account: read and decrypt the keyfile (lines 118-126),
\* `self.__key = private_key` (128), `self.__unlocked = unlocked` and return
\* (137-138).
LocalSigner_unlock_account_thread(t, password) ==
    LET me == callers[t]
        imported == LocalSigner__import_keyfile(password)
    IN  /\ cls = "LocalSigner"
        /\ CASE me.pc = "idle" ->
                    /\ callers' = [callers EXCEPT ![t] =
                           IF imported.outcome = "return"
                           THEN [pc |-> "unlock_key", private_key |-> imported.value]
                           ELSE Ended("unlock_account", imported.outcome, "no", Revoking(t))]
                    /\ UNCHANGED <<LocalSigner__key, LocalSigner__unlocked>>
             [] me.pc = "unlock_key" ->
                    /\ LocalSigner__key' = Set(me.private_key)
                    /\ callers' = [callers EXCEPT ![t] = [pc |-> "unlock_flag"]]
                    /\ UNCHANGED LocalSigner__unlocked
             [] me.pc = "unlock_flag" ->
                    /\ LocalSigner__unlocked' = Set(PyTrue)
                    /\ callers' = [callers EXCEPT ![t] =
                           Ended("unlock_account", "return", "no", Revoking(t))]
                    /\ UNCHANGED LocalSigner__key
             [] OTHER -> FALSE
        /\ UNCHANGED <<cls, keyfile, toHex_str, Signer__unlocked, Web3Signer__unlocked,
                       Web3Signer__client, sequential>>

\* LocalSigner.lock_account: `self.__key = None` (141), then
\* `self.__unlocked = False` and return (142-143).
LocalSigner_lock_account_thread(t) ==
    LET me == callers[t]
    IN  /\ cls = "LocalSigner"
        /\ CASE me.pc = "idle" ->
                    /\ LocalSigner__key' = Set(PyNone)
                    /\ callers' = [callers EXCEPT ![t] =
                           [pc |-> "lock_flag", discarded |-> LocalSigner__key]]
                    /\ UNCHANGED LocalSigner__unlocked
             [] me.pc = "lock_flag" ->
                    /\ LocalSigner__unlocked' = Set(PyFalse)
                    /\ callers' = [callers EXCEPT ![t] =
                           Ended("lock_account", "return", "no", Revoking(t))]
                    /\ UNCHANGED LocalSigner__key
             [] OTHER -> FALSE
        /\ UNCHANGED <<cls, keyfile, toHex_str, Signer__unlocked, Web3Signer__unlocked,
                       Web3Signer__client, sequential>>

\* LocalSigner.sign_transaction: the is_unlocked check (149-150), the read
\* of self.__key for the call's argument (153), and the signing step, the
\* library call that signs with the key that was read (152-155).  The key
\* is stale at the signing step when it was read as None or is no longer
\* the key the signer holds.
LocalSigner_sign_transaction_thread(t, unsigned_transaction) ==
    LET me == callers[t]
    IN  /\ cls = "LocalSigner"
        /\ CASE me.pc = "idle" ->
                    callers' = [callers EXCEPT ![t] =
                        IF ~is_unlocked
                        THEN Ended("sign_transaction", "AccountLocked", "no", Revoking(t))
                        ELSE [pc |-> "sign_read", transaction |-> unsigned_transaction]]
             [] me.pc = "sign_read" ->
                    callers' = [callers EXCEPT ![t] =
                        [pc |-> "sign_call", transaction |-> me.transaction,
                         private_key |-> CHOOSE k \in LocalSigner__key : TRUE]]
             [] me.pc = "sign_call" ->
                    callers' = [callers EXCEPT ![t] =
                        Ended("sign_transaction",
                              account_sign_transaction(me.transaction,
                                                       me.private_key).outcome,
                              IF me.private_key = PyNone
                                 \/ LocalSigner__key # Set(me.private_key)
                              THEN "stale" ELSE "held",
                              Revoking(t))]
             [] OTHER -> FALSE
        /\ UNCHANGED <<cls, keyfile, toHex_str, attrs, sequential>>

InitConcurrent == LocalSigner_init

NextConcurrent ==
    \/ \E t \in Callers, p \in Passwords : LocalSigner_unlock_account_thread(t, p)
    \/ \E t \in Callers : LocalSigner_lock_account_thread(t)
    \/ \E t \in Callers, tx \in Transactions : LocalSigner_sign_transaction_thread(t, tx)

SpecConcurrent == InitConcurrent /\ [][NextConcurrent]_vars

(***************************************************************************)
(* Properties.                                                             *)
(***************************************************************************)
SignOps == {"sign_transaction", "sign_message"}
LockOps == {"unlock_account", "lock_account"}
client == CHOOSE c \in Web3Signer__client : TRUE
KeyHeld(snapshot) == snapshot.LocalSigner__key \notin {Unset, Set(PyNone)}

\* C1: on every backend, sign_transaction and sign_message called while
\* is_unlocked is false fail with AccountLocked and leave the signer's
\* attributes as they were.
C1_SignWhileLockedFails ==
    (last.op \in SignOps /\ ~last.was_unlocked)
        => (last.outcome = "AccountLocked" /\ Snapshot = last.pre)

\* C2: on Web3Signer and LocalSigner, from an unlock_account that returned
\* true until the next lock_account is_unlocked reads true, and the value
\* unlock_account returns is the value is_unlocked reads right after it.
C2_UnlockMakesUnlocked ==
    cls \in {"Web3Signer", "LocalSigner"}
        => /\ unlockedSinceLock => is_unlocked
           /\ (last.op = "unlock_account" /\ last.outcome = "return")
                  => last.value = PyBool(is_unlocked)

\* C3: in every reachable state, is_unlocked is true only if the most recent
\* unlock_account/lock_account call was an unlock_account that succeeded:
\* before any such call, after a lock_account and after an unlock_account
\* that failed, is_unlocked reads false.
C3_UnlockedOnlyAfterUnlock == lastLockOp # "unlock_ok" => ~is_unlocked

\* C3, a state it speaks of: a successful unlock_account was followed by
\* lock_account, and is_unlocked reads false.
C3_Witness ==
    /\ prev.op = "unlock_account" /\ prev.outcome = "return" /\ prev.value = PyTrue
    /\ last.op = "lock_account"
    /\ lastLockOp = "lock"
    /\ ~is_unlocked

\* C4: on LocalSigner, after unlock_account with the correct password, two
\* consecutive sign_transaction calls on the same transaction (sent from the
\* key's address), with no lock_account or unlock_account between them, both
\* return a signature, and both signatures recover to the address of the key
\* in the keyfile.
C4_SignTwiceSameSigner ==
    (/\ cls = "LocalSigner"
     /\ lastLockOp = "unlock_ok"
     /\ prev.op = "sign_transaction" /\ last.op = "sign_transaction"
     /\ prev.args.transaction = last.args.transaction
     /\ last.args.transaction.from = key_address(keyfile.key))
        => /\ prev.outcome = "return" /\ last.outcome = "return"
           /\ recover_transaction(prev.value) = key_address(keyfile.key)
           /\ recover_transaction(last.value) = key_address(keyfile.key)

\* C5: on LocalSigner, unlock_account (correct password), lock_account,
\* sign_transaction: the signer held the key when lock_account was called,
\* and the sign_transaction that follows finds no key held, fails with
\* AccountLocked and returns no signature.
C5_SignAfterLockFails ==
    (/\ cls = "LocalSigner"
     /\ prev.op = "lock_account" /\ KeyHeld(prev.pre)
     /\ last.op = "sign_transaction")
        => (last.outcome = "AccountLocked" /\ last.value = PyNone /\ ~KeyHeld(last.pre))

C5_Witness ==
    /\ cls = "LocalSigner"
    /\ prev.op = "lock_account" /\ KeyHeld(prev.pre)
    /\ last.op = "sign_transaction" /\ last.outcome = "AccountLocked"

\* C6: on LocalSigner, in every reachable state the decrypted key is held
\* only while is_unlocked is true, and right after lock_account no key is
\* held.
C6_KeyOnlyWhileUnlocked ==
    cls = "LocalSigner"
        => /\ KeyHeld(Snapshot) => is_unlocked
           /\ last.op = "lock_account" => ~KeyHeld(Snapshot)

\* C7: on a LocalSigner that is locked, unlock_account with a password that
\* is not the keyfile's raises the decryption error to the caller, and
\* is_unlocked is false afterwards.
C7_WrongPasswordRaises ==
    (/\ cls = "LocalSigner"
     /\ last.op = "unlock_account" /\ ~last.was_unlocked
     /\ keyfile.t = "keystore" /\ last.args.password # keyfile.password)
        => (last.outcome = "ValueError" /\ ~is_unlocked)

C7_Witness ==
    /\ cls = "LocalSigner"
    /\ last.op = "unlock_account" /\ ~last.was_unlocked
    /\ keyfile.t = "keystore" /\ last.args.password # keyfile.password
    /\ last.outcome = "ValueError"

\* The target of a lock_account or unlock_account call is an address of a
\* hardware wallet of the client.
HardwareTarget(c) == c.op \in LockOps /\ is_device(client, c.args.account) = PyTrue

\* C8: on Web3Signer, for an address of a wallet whose URL starts with
\* 'trezor' or 'ledger', unlock_account returns true and lock_account returns
\* false, and neither sends a request to the client.
C8_HardwareWalletNoDelegation ==
    (cls = "Web3Signer" /\ last.op \in LockOps /\ HardwareTarget(last))
        => /\ last.requests = <<>>
           /\ last.outcome = "return"
           /\ last.op = "unlock_account" => last.value = PyTrue
           /\ last.op = "lock_account" => (last.value = PyFalse /\ ~is_unlocked)

C8_Witness ==
    /\ cls = "Web3Signer"
    /\ prev.op = "unlock_account" /\ HardwareTarget(prev)
    /\ prev.value = PyTrue /\ prev.requests = <<>>
    /\ last.op = "lock_account" /\ HardwareTarget(last)
    /\ last.value = PyFalse /\ last.requests = <<>>

\* C9: on Web3Signer, for an address that is not a hardware-wallet address,
\* unlock_account sends exactly one unlock request with the given address,
\* password and duration and returns the boolean the client replied (the
\* signer stays locked when it is false), and lock_account sends one lock
\* request for the given address.
C9_SoftwareAccountDelegates ==
    (cls = "Web3Signer" /\ last.op \in LockOps /\ ~HardwareTarget(last))
        => /\ Len(last.requests) = 1
           /\ last.op = "unlock_account"
                  => /\ last.requests[1].method = "unlock_account"
                     /\ last.requests[1].params =
                            [address |-> last.args.account,
                             password |-> last.args.password,
                             duration |-> last.args.duration]
                     /\ last.requests[1].reply.outcome = "return"
                            => /\ last.outcome = "return"
                               /\ last.value = last.requests[1].reply.value
                               /\ last.value = PyFalse => ~is_unlocked
           /\ last.op = "lock_account"
                  => /\ last.requests[1].method = "lock_account"
                     /\ last.requests[1].params = [address |-> last.args.account]

\* C10: on a Web3Signer whose client has no wallets attribute, hardware
\* detection answers "not a device" for every address, and unlock_account
\* and lock_account go through the client's unlock and lock requests.
C10_NoWalletsDelegates ==
    (cls = "Web3Signer" /\ ~client.has_wallets)
        => /\ \A a \in ChecksumAddresses : is_device(client, a) = PyFalse
           /\ last.op \in LockOps
                  => /\ Len(last.requests) = 1
                     /\ last.requests[1].method = last.op

\* C11 as stated: on every backend and from either lock state, lock_account
\* returns without raising, the value it returns is false, is_unlocked is
\* false afterwards, and a second lock_account right after it returns the
\* same value and leaves the attributes as the first left them.
C11_LockReturnsFalse ==
    last.op = "lock_account"
        => /\ last.outcome = "return"
           /\ last.value = PyFalse
           /\ ~is_unlocked
           /\ prev.op = "lock_account"
                  => (prev.outcome = last.outcome /\ prev.value = last.value
                      /\ Snapshot = last.pre)

\* C11: on every backend and from either lock state, lock_account returns
\* without raising and is_unlocked is false afterwards; it returns false on
\* Web3Signer and LocalSigner and true on ClefSigner; a second lock_account
\* right after it returns the same value and leaves the attributes as the
\* first left them.
C11_LockCompletes ==
    last.op = "lock_account"
        => /\ last.outcome = "return"
           /\ last.value = (IF cls = "ClefSigner" THEN PyTrue ELSE PyFalse)
           /\ ~is_unlocked
           /\ prev.op = "lock_account"
                  => (prev.outcome = last.outcome /\ prev.value = last.value
                      /\ Snapshot = last.pre)

\* C11, a state it speaks of: a LocalSigner holding a key was locked, and
\* locked a second time when nothing was unlocked.
C11_Witness ==
    /\ cls = "LocalSigner"
    /\ prev.op = "lock_account" /\ KeyHeld(prev.pre) /\ prev.value = PyFalse
    /\ last.op = "lock_account" /\ ~KeyHeld(last.pre) /\ last.value = PyFalse
    /\ ~is_unlocked

\* C12: on ClefSigner, is_unlocked reads true after construction and after
\* any sequence of unlock_account, lock_account, accounts and sign calls.
C12_ClefAlwaysUnlocked == cls = "ClefSigner" => is_unlocked

\* C13: on ClefSigner, unlock_account and lock_account, for any address,
\* password and duration and in any state, return true, send no request to
\* the signing daemon and leave every attribute of the signer as it was.
C13_ClefLockOpsAreNoOps ==
    (cls = "ClefSigner" /\ last.op \in LockOps)
        => /\ last.outcome = "return"
           /\ last.value = PyTrue
           /\ last.requests = <<>>
           /\ Snapshot = last.pre

\* C13, a state it speaks of: unlock_account then lock_account on a
\* ClefSigner, both answered true without a request.
C13_Witness ==
    /\ cls = "ClefSigner"
    /\ prev.op = "unlock_account" /\ prev.value = PyTrue /\ prev.requests = <<>>
    /\ last.op = "lock_account" /\ last.value = PyTrue /\ last.requests = <<>>
    /\ Snapshot = prev.pre

\* C14: ClefSigner.sign_message called with no content type sends exactly
\* one account_signData request whose parameters are 'text/plain', the given
\* address and the message as given, and the caller gets what the daemon
\* answered: its response as the returned value, its failure as the failure.
C14_DefaultContentType ==
    (cls = "ClefSigner" /\ last.op = "sign_message" /\ last.args.content_type = PyNone)
        => /\ Len(last.requests) = 1
           /\ last.requests[1].method = "account_signData"
           /\ last.requests[1].params =
                  <<SIGN_DATA_FOR_ECRECOVER, last.args.account, last.args.message>>
           /\ last.outcome = last.requests[1].reply.outcome
           /\ last.value = last.requests[1].reply.value

\* C14, a state it speaks of: a sign_message without content type that the
\* daemon answered.
C14_Witness ==
    /\ cls = "ClefSigner" /\ last.op = "sign_message"
    /\ last.args.content_type = PyNone
    /\ last.outcome = "return" /\ last.value = Text("0xsignature")
    /\ last.requests[1].params[1] = Text("text/plain")

\* C15: ClefSigner.sign_message with the validator content type fails with
\* ValueError, sending nothing, when validator_address is None or the zero
\* address; with a non-zero address it sends one account_signData request
\* whose data is the pair (validator_address, message), and returns when the
\* daemon answers.
C15_ValidatorAddressRequired ==
    (/\ cls = "ClefSigner" /\ last.op = "sign_message"
     /\ last.args.content_type = SIGN_DATA_FOR_VALIDATOR)
        => IF last.args.validator_address \in {PyNone, NULL_ADDRESS}
           THEN /\ last.outcome = "ValueError: a validator address is required"
                /\ last.requests = <<>>
           ELSE /\ Len(last.requests) = 1
                /\ last.requests[1].method = "account_signData"
                /\ last.requests[1].params =
                       <<SIGN_DATA_FOR_VALIDATOR, last.args.account,
                         [t |-> "list",
                          items |-> <<last.args.validator_address, last.args.message>>]>>
                /\ last.requests[1].reply.outcome = "return"
                       => (last.outcome = "return"
                           /\ last.value = last.requests[1].reply.value)

\* C15, a state it speaks of: a validator-type sign_message with a non-zero
\* validator address, answered by the daemon.
C15_Witness ==
    /\ cls = "ClefSigner" /\ last.op = "sign_message"
    /\ last.args.content_type = SIGN_DATA_FOR_VALIDATOR
    /\ last.args.validator_address = Address(1, "checksum")
    /\ last.outcome = "return"
    /\ last.requests[1].params[3].items[1] = Address(1, "checksum")

\* C16: ClefSigner.sign_message given a content type that is not one of the
\* three recognized types fails with ValueError and sends nothing.
C16_UnrecognizedContentType ==
    (/\ cls = "ClefSigner" /\ last.op = "sign_message"
     /\ last.args.content_type # PyNone
     /\ last.args.content_type \notin SIGN_DATA_CONTENT_TYPES)
        => /\ last.outcome = "ValueError: not a valid content type"
           /\ last.requests = <<>>

\* C17 as stated: ClefSigner.sign_message with the clique content type does
\* not fail; it sends one account_signData request with the clique type and
\* the message as data.
C17_CliqueIsSigned ==
    (/\ cls = "ClefSigner" /\ last.op = "sign_message"
     /\ last.args.content_type = SIGN_DATA_FOR_CLIQUE)
        => /\ Len(last.requests) = 1
           /\ last.requests[1].params =
                  <<SIGN_DATA_FOR_CLIQUE, last.args.account, last.args.message>>
           /\ last.outcome = last.requests[1].reply.outcome

\* C17: ClefSigner.sign_message with the clique content type passes the
\* content-type check (no ValueError), then fails with NotImplementedError
\* and sends no request.
C17_CliqueNotImplemented ==
    (/\ cls = "ClefSigner" /\ last.op = "sign_message"
     /\ last.args.content_type = SIGN_DATA_FOR_CLIQUE)
        => /\ last.outcome = "NotImplementedError"
           /\ last.requests = <<>>

\* C17, a state it speaks of: a clique-type sign_message has been refused.
C17_Witness ==
    /\ cls = "ClefSigner" /\ last.op = "sign_message"
    /\ last.args.content_type = Text("application/clique")
    /\ last.outcome = "NotImplementedError"

\* C18: the transaction ClefSigner.sign_transaction sends in its one
\* account_signTransaction request has nonce, gasPrice, gas, value and
\* chainId as the hex strings of their numbers and 'from' in lowercase, every
\* other field as given, and it is the same request whether the numbers
\* were given as integers or as hex strings.
C18_FormattedRequest ==
    (cls = "ClefSigner" /\ last.op = "sign_transaction")
        => \A tx \in IntTransactions :
               last.args.transaction \in {tx, Hexed(tx)}
                   => /\ Len(last.requests) = 1
                      /\ last.requests[1].method = "account_signTransaction"
                      /\ last.requests[1].params =
                             <<[tx EXCEPT !.nonce = hex(@.n), !.gasPrice = hex(@.n),
                                          !.gas = hex(@.n), !.value = hex(@.n),
                                          !.chainId = hex(@.n),
                                          !.from = to_normalized_address(@)]>>

\* C19: on every backend, after sign_transaction, whether it returned or
\* raised, every field of the mapping the caller passed in has the value it
\* had before the call.
C19_CallerTransactionUnchanged ==
    last.op = "sign_transaction" => last.transaction_after = last.args.transaction

\* C19, a state it speaks of: ClefSigner.sign_transaction returned, the
\* request it sent carried a formatted mapping that differs from the one
\* passed in, and the caller's mapping is as it was.
C19_Witness ==
    /\ cls = "ClefSigner" /\ last.op = "sign_transaction" /\ last.outcome = "return"
    /\ last.requests[1].params[1] # last.args.transaction
    /\ last.transaction_after = last.args.transaction

\* C20: on every backend and in either lock state, accounts() needs no
\* unlock and returns a sequence of addresses, never None; on ClefSigner it
\* sends one account_list request and returns the daemon's addresses in the
\* daemon's order, each in checksum form.
C20_AccountsListed ==
    last.op = "accounts"
        => /\ last.outcome # "AccountLocked"
           /\ last.outcome = "return" => last.value.t = "list"
           /\ cls # "ClefSigner" => last.outcome = "return"
           /\ cls = "ClefSigner"
                  => /\ Len(last.requests) = 1
                     /\ last.requests[1].method = "account_list"
                     /\ last.requests[1].reply.outcome = "return"
                            => /\ last.outcome = "return"
                               /\ Len(last.value.items) =
                                      Len(last.requests[1].reply.value.items)
                               /\ \A i \in 1..Len(last.value.items) :
                                      last.value.items[i] =
                                          to_checksum_address(
                                              last.requests[1].reply.value.items[i])

\* C21: LocalSigner.sign_message is never a silent pass: in every state it
\* returns a signature over the message or raises to the caller; it never
\* returns None as if it had succeeded.
C21_LocalSignMessageNotSilent ==
    (cls = "LocalSigner" /\ last.op = "sign_message")
        => (last.outcome = "return" => last.value # PyNone)

\* C22: LocalSigner.unlock_account on a missing keyfile raises
\* FileNotFoundError, on a keyfile it cannot decrypt (wrong password or
\* corrupt file) raises the decryption error, and neither outcome is ever
\* the other's.
C22_KeyfileErrorsDistinct ==
    (cls = "LocalSigner" /\ last.op = "unlock_account")
        => /\ keyfile = NoFile => last.outcome = "FileNotFoundError"
           /\ (keyfile # NoFile /\ account_decrypt(keyfile, last.args.password).outcome
                                        # "return")
                  => last.outcome \notin {"return", "FileNotFoundError"}

\* C22, a state it speaks of: unlock_account has failed on a missing
\* keyfile.
C22_Witness ==
    /\ cls = "LocalSigner" /\ keyfile = NoFile
    /\ last.op = "unlock_account" /\ last.outcome = "FileNotFoundError"

\* C23: on every backend, one call sends at most one request to its
\* delegate, and when that request fails the call raises that failure: it
\* does not try again and does not return a value in its place.
C23_NoRetryFailurePropagates ==
    last.op # "none"
        => /\ Len(last.requests) <= 1
           /\ (Len(last.requests) = 1 /\ last.requests[1].reply.outcome # "return")
                  => (last.outcome = last.requests[1].reply.outcome
                      /\ last.value = PyNone)

\* C23, a state it speaks of: the one account_list request of
\* ClefSigner.accounts failed, and the call raised the failure.
C23_Witness ==
    /\ cls = "ClefSigner" /\ last.op = "accounts"
    /\ Len(last.requests) = 1
    /\ last.requests[1].reply = TransportFailure
    /\ last.outcome = "ConnectionError"

C25_NoKeyInOutputs ==
    last.op # "none"
        => /\ last.value.t # "key"
           /\ last.value.t = "list"
                  => \A i \in 1..Len(last.value.items) : last.value.items[i].t # "key"
           /\ last.outcome # "return" => last.value = PyNone

\* C25, a state it speaks of: a LocalSigner holds its decrypted key, and
\* the unlock_account that decrypted it and a sign_transaction after it
\* have handed their outcomes to the caller.
C25_Witness ==
    /\ cls = "LocalSigner" /\ KeyHeld(Snapshot)
    /\ prev.op = "unlock_account" /\ prev.value = PyTrue
    /\ last.op = "sign_transaction" /\ KeyHeld(last.pre)

\* C26: Web3Signer.sign_message and sign_transaction called while
\* is_unlocked is false raise AccountLocked, send nothing to the client and
\* change no attribute; called while is_unlocked is true they send exactly
\* one signing request to the client and return its result.
C26_Web3SignGuard ==
    (cls = "Web3Signer" /\ last.op \in SignOps)
        => IF ~last.was_unlocked
           THEN /\ last.outcome = "AccountLocked"
                /\ last.requests = <<>>
                /\ Snapshot = last.pre
           ELSE /\ Len(last.requests) = 1
                /\ last.requests[1].method = last.op
                /\ last.outcome = last.requests[1].reply.outcome
                /\ last.outcome = "return"
                       => last.value =
                              IF last.op = "sign_message"
                              THEN [t |-> "HexBytes", of |-> last.requests[1].reply.value]
                              ELSE last.requests[1].reply.value

\* C26, a state it speaks of: a Web3Signer was unlocked for an account and
\* then asked to sign a message while is_unlocked read false.
C26_Witness ==
    /\ cls = "Web3Signer"
    /\ prev.op = "unlock_account" /\ prev.value = PyTrue
    /\ last.op = "sign_message" /\ ~last.was_unlocked
    /\ last.outcome = "AccountLocked" /\ last.requests = <<>>

\* C27: ClefSigner.sign_message called with a content type that is not one
\* of the recognized three and without a validator address always fails
\* with the invalid-content-type error, never with the
\* validator-address-required error.
C27_ContentTypeCheckedFirst ==
    (/\ cls = "ClefSigner" /\ last.op = "sign_message"
     /\ last.args.content_type # PyNone
     /\ last.args.content_type \notin SIGN_DATA_CONTENT_TYPES
     /\ last.args.validator_address = PyNone)
        => last.outcome = "ValueError: not a valid content type"

\* C28: a ClefSigner.sign_message that fails validation (invalid content
\* type, or the validator type without a non-zero validator address) has
\* sent no request, and every account_signData request that is sent carries
\* one of the three recognized content types.
C28_NoRequestOnValidationFailure ==
    (cls = "ClefSigner" /\ last.op = "sign_message")
        => /\ last.outcome \in {"ValueError: not a valid content type",
                                "ValueError: a validator address is required"}
                  => last.requests = <<>>
           /\ \A i \in 1..Len(last.requests) :
                  /\ last.requests[i].method = "account_signData"
                  /\ last.requests[i].params[1] \in SIGN_DATA_CONTENT_TYPES

\* C28, a state it speaks of: a validator-type sign_message without a
\* validator address has failed, and nothing was sent.
C28_Witness ==
    /\ cls = "ClefSigner" /\ last.op = "sign_message"
    /\ last.args.content_type = SIGN_DATA_FOR_VALIDATOR
    /\ last.args.validator_address = PyNone
    /\ last.outcome = "ValueError: a validator address is required"
    /\ last.requests = <<>>

\* C29: a LocalSigner.unlock_account that fails (missing keyfile or failed
\* decryption) leaves the lock flag and the held key as they were before
\* the call, also when a key from an earlier unlock is held.
C29_FailedUnlockChangesNothing ==
    (cls = "LocalSigner" /\ last.op = "unlock_account" /\ last.outcome # "return")
        => (Snapshot = last.pre /\ is_unlocked = last.was_unlocked)

\* C29, a state it speaks of: a signer holding a decrypted key was asked to
\* unlock with a wrong password; the call failed and the key is still held.
C29_Witness ==
    /\ cls = "LocalSigner"
    /\ last.op = "unlock_account" /\ last.outcome = "ValueError"
    /\ KeyHeld(last.pre) /\ KeyHeld(Snapshot)
    /\ Snapshot = last.pre

====
